---- MODULE Spec2Model ----
(***************************************************************************)
(* Model of the Markdown-to-blocks converter of notion-sync.py:            *)
(* NotionSync.markdown_to_blocks (the block segmenter), _heading_block and *)
(* NotionSync._parse_rich_text (the inline formatter).                     *)
(*                                                                         *)
(* A Python string is a sequence of one-character strings.  Cursors keep   *)
(* Python's 0-based values, so text[i] of the source is text[i + 1] here.  *)
(* A sequence applied outside its domain is an evaluation error of the     *)
(* model checker, as an out-of-range index is an IndexError of the source; *)
(* slices clamp as Python's do.                                            *)
(***************************************************************************)
EXTENDS Integers, Sequences, FiniteSets, TLC

VARIABLES lines, i, blocks, origin, pc, ret,
          lang, code_lines,
          kind, text, ri, current, result, rt

vars == <<lines, i, blocks, origin, pc, ret, lang, code_lines,
          kind, text, ri, current, result, rt>>

(***************************************************************************)
(* Bounds of the model and constants of the program.                       *)
(***************************************************************************)
\* blocks[:100], the Notion limit
Cap == 100
\* longest text of the exhaustive one-line documents
MaxText == 4
\* most lines of a document built from SampleLines
MaxLines == 2
\* most lines enclosed by a code fence in the fence documents
MaxBody == 2
\* the long documents have Cap - 1 .. Cap + Over lines
Over == 2

Min(S) == CHOOSE x \in S : \A y \in S : x <= y
Max(S) == CHOOSE x \in S : \A y \in S : x >= y

(***************************************************************************)
(* Python string operations, as the source uses them.                      *)
(***************************************************************************)
\* the backquote character, which a string of this language cannot hold
BQ == "bq"

\* s[a:b] with 0 <= a
Slice(s, a, b) ==
    LET hi == IF b < Len(s) THEN b ELSE Len(s)
    IN  IF a >= hi THEN <<>> ELSE SubSeq(s, a + 1, hi)

\* s[a:]
From(s, a) == Slice(s, a, Len(s))

\* s.startswith(p)
StartsWith(s, p) == Len(s) >= Len(p) /\ SubSeq(s, 1, Len(p)) = p

\* s.find(sub, start): the least index >= start where sub occurs, or -1
Find(s, sub, start) ==
    LET hits == {n \in start..(Len(s) - Len(sub)) : Slice(s, n, n + Len(sub)) = sub}
    IN  IF hits = {} THEN -1 ELSE Min(hits)

\* sub in s
Contains(s, sub) == Find(s, sub, 0) # -1

IsSpace(c) == c \in {" ", "\n"}

\* s.strip()
Strip(s) ==
    LET keep == {n \in 1..Len(s) : ~IsSpace(s[n])}
    IN  IF keep = {} THEN <<>> ELSE SubSeq(s, Min(keep), Max(keep))

\* s.split(sep) for a one-character sep: one piece more than there are
\* separators, piece k lying between separator k - 1 and separator k
Split(s, sep) ==
    LET at == {n \in 1..Len(s) : s[n] = sep}
        nth(k) == CHOOSE p \in at : Cardinality({q \in at : q <= p}) = k
        first(k) == IF k = 1 THEN 1 ELSE nth(k - 1) + 1
        last(k) == IF k = Cardinality(at) + 1 THEN Len(s) ELSE nth(k) - 1
    IN  [k \in 1..(Cardinality(at) + 1) |-> SubSeq(s, first(k), last(k))]

RECURSIVE Join(_, _)
\* sep.join(parts)
Join(parts, sep) ==
    IF Len(parts) = 0 THEN <<>>
    ELSE IF Len(parts) = 1 THEN parts[1]
    ELSE LET h == Len(parts) \div 2
         IN  Join(SubSeq(parts, 1, h), sep) \o sep
                 \o Join(SubSeq(parts, h + 1, Len(parts)), sep)

IsDigit(c) == c \in {"0", "1", "2", "3", "4", "5", "6", "7", "8", "9"}

\* the length of the match of ^\d+\. (digits, a dot, a space) at the start
\* of line, or 0 when re.match finds none
NumPrefix(line) ==
    LET nondigit == {n \in 1..Len(line) : ~IsDigit(line[n])}
        d == IF nondigit = {} THEN Len(line) ELSE Min(nondigit) - 1
    IN  IF d >= 1 /\ Slice(line, d, d + 2) = <<".", " ">> THEN d + 2 ELSE 0

(***************************************************************************)
(* Spans and blocks.  A span is the dict _parse_rich_text builds: its      *)
(* content, its annotations and its link; a block is its Notion type, its  *)
(* rich_text list and (for a code block) its language.                     *)
(***************************************************************************)
Plain(c) == [content |-> c, bold |-> FALSE, italic |-> FALSE, link |-> FALSE, url |-> <<>>]
Bold(c) == [content |-> c, bold |-> TRUE, italic |-> FALSE, link |-> FALSE, url |-> <<>>]
Italic(c) == [content |-> c, bold |-> FALSE, italic |-> TRUE, link |-> FALSE, url |-> <<>>]
LinkSpan(c, u) == [content |-> c, bold |-> FALSE, italic |-> FALSE, link |-> TRUE, url |-> u]

Block(t, rich, l) == [type |-> t, rich_text |-> rich, language |-> l]

PlainText == <<"p", "l", "a", "i", "n", " ", "t", "e", "x", "t">>

(***************************************************************************)
(* _parse_rich_text: what one iteration of its loop reads.                 *)
(***************************************************************************)
\* if current: result.append(plain span of current)
Flush(res, cur) == IF cur # <<>> THEN Append(res, Plain(cur)) ELSE res

\* text[i:i+2] == "**"
AtBold(t, n) == Slice(t, n, n + 2) = <<"*", "*">>

\* text[i] == "*" and (i == 0 or text[i-1] != "*")
AtItalic(t, n) == t[n + 1] = "*" /\ (IF n = 0 THEN TRUE ELSE t[n] # "*")

\* text[i:i+1] == "["
AtLink(t, n) == Slice(t, n, n + 1) = <<"[">>

\* a faulty variant of CloseIndex: -1 is kept when the marker is not found
CloseIndexNoFix(t, marker, start) == Find(t, marker, start)

\* the index of the closing marker: text.find(marker, start), or len(text)
\* if there is none
CloseIndex(t, marker, start) ==
    LET j == Find(t, marker, start)
    IN  IF j = -1 THEN Len(t) ELSE j

\* j = text.find("]", i)
LinkJ(t, n) == Find(t, <<"]">>, n)

\* a faulty variant of LinkK: the last ")" after j, as rfind gives it
LinkKLast(t, j) ==
    LET hits == {n \in (j + 1)..(Len(t) - 1) : t[n + 1] = ")"}
    IN  IF hits = {} THEN -1 ELSE Max(hits)

\* k = text.find(")", j+1)
LinkK(t, j) == Find(t, <<")">>, j + 1)

\* the whole [text](url) pattern is found from the "[" at n
LinkMatches(t, n) ==
    /\ LinkJ(t, n) # -1
    /\ Slice(t, LinkJ(t, n) + 1, LinkJ(t, n) + 2) = <<"(">>
    /\ LinkK(t, LinkJ(t, n)) # -1

\* a faulty variant of FinalFlush: the last plain run is not flushed
FinalFlushNone(res, cur) == res

\* the spans the end of the loop leaves: if current: result.append(...)
FinalFlush(res, cur) == Flush(res, cur)

\* a faulty variant of FmtValue: the last span, result[-1]
FmtValueLast(res) == IF res # <<>> THEN res[Len(res)] ELSE Plain(<<>>)

\* return result[0] if result else the empty plain span
FmtValue(res) == IF res # <<>> THEN res[1] ELSE Plain(<<>>)

(***************************************************************************)
(* markdown_to_blocks: the dispatch of one line, in the source's order.    *)
(***************************************************************************)
IsBlank(line) == Strip(line) = <<>>
IsH1(line) == StartsWith(line, <<"#", " ">>)
IsH2(line) == StartsWith(line, <<"#", "#", " ">>)
IsH3(line) == StartsWith(line, <<"#", "#", "#", " ">>)
IsDivider(line) ==
    Strip(line) \in {<<"-", "-", "-">>, <<"*", "*", "*">>, <<"_", "_", "_">>}
IsQuote(line) == StartsWith(line, <<">", " ">>)
\* line.startswith of three backquotes
IsFence(line) == StartsWith(line, <<BQ, BQ, BQ>>)
IsBullet(line) ==
    StartsWith(Strip(line), <<"-", " ">>) \/ StartsWith(Strip(line), <<"*", " ">>)
IsNumbered(line) == NumPrefix(line) # 0
IsTable(line) == Contains(line, <<"|">>) /\ ~StartsWith(Strip(line), <<"|">>)

\* the first rule of the loop body that takes the line
Rule(line) ==
    IF IsBlank(line) THEN "blank"
    ELSE IF IsH1(line) THEN "heading_1"
    ELSE IF IsH2(line) THEN "heading_2"
    ELSE IF IsH3(line) THEN "heading_3"
    ELSE IF IsDivider(line) THEN "divider"
    ELSE IF IsQuote(line) THEN "quote"
    ELSE IF IsFence(line) THEN "code"
    ELSE IF IsBullet(line) THEN "bulleted_list_item"
    ELSE IF IsNumbered(line) THEN "numbered_list_item"
    ELSE IF IsTable(line) THEN "table"
    ELSE "paragraph"

\* line[2:], line[3:], line[4:] of the three heading rules
H1Text(line) == From(line, 2)
H3Text(line) == From(line, 4)

\* a faulty variant of H2Text: line[2:], the slice of the level-1 rule
H2TextShort(line) == From(line, 2)

\* line[3:] of the level-2 rule
H2Text(line) == From(line, 3)

\* lang = line[3:].strip() if len(line) > 3 else the empty string
FenceLang(line) == IF Len(line) > 3 THEN Strip(From(line, 3)) ELSE <<>>

\* text = line.strip()[2:]
BulletText(line) == From(Strip(line), 2)

\* text = re.sub("^\d+\. ", "", line)
NumberedText(line) == From(line, NumPrefix(line))

\* cells = [c.strip() for c in line.split("|")[1:-1]]; " | ".join(cells)
TableText(line) ==
    LET parts == Split(line, "|")
        inner == Slice(parts, 1, Len(parts) - 1)
        cells == [n \in 1..Len(inner) |-> Strip(inner[n])]
    IN  Join(cells, <<" ", "|", " ">>)

\* newline.join(code_lines) as the one raw span of a code block
CodeBlock(l, body) ==
    Block("code", <<Plain(Join(body, <<"\n">>))>>, IF l # <<>> THEN l ELSE PlainText)

\* a faulty variant of Truncate: blocks[-100:], the last Cap blocks
TruncateLast(b) == IF Len(b) > Cap THEN SubSeq(b, Len(b) - Cap + 1, Len(b)) ELSE b

\* return blocks[:100]
Truncate(b) == Slice(b, 0, Cap)

(***************************************************************************)
(* The documents the model converts.                                       *)
(***************************************************************************)
SeqsUpTo(S, n) == UNION {[1..k -> S] : k \in 0..n}

\* the characters the inline scan tells apart, and one it does not
InlineChars == {"a", "*", "[", "]", "(", ")"}

\* one line for each rule of the dispatch, and the near misses of each
SampleLines ==
    { <<>>, <<" ">>, <<"a">>,
      <<"#", " ", "a">>, <<"#", " ">>, <<"#", "#", " ", "*", "a", "*">>,
      <<"#", "#", "#", " ", "a">>, <<"#", "#", "#", "#", " ", "a">>,
      <<"#", "#", "#", "#", "#", " ", "a", "|", "b">>,
      <<"-", "-", "-">>, <<" ", "_", "_", "_", " ">>,
      <<">", " ", "*", "a", "*">>,
      <<BQ, BQ, BQ>>, <<BQ, BQ, BQ, "p", "y">>,
      <<"-", " ", "a">>, <<" ", "*", " ", "a">>,
      <<"3", ".", " ", "a">>, <<" ", " ", "3", ".", " ", "a">>,
      <<"1", "2", ".", " ", "*", "*", "a", "*", "*", "b">>,
      <<"|", " ", "a", " ", "|", " ", "b", " ", "|", " ", "c", " ", "|">>,
      <<"a", " ", "|", " ", "b">>, <<"x", "|", "a", " ", "|", "b", "|">>,
      <<"a", "[", "b">>, <<"*", "*", "a", "*", "*", " ", "b">>,
      <<"a", " ", "*", "*", "b">> }

\* the lines a code fence may enclose
BodyLines ==
    { <<>>, <<"a", " ">>, <<"#", " ", "a">>, <<"-", "-", "-">>,
      <<"-", " ", "a">>, <<" ", BQ, BQ, BQ>> }

FenceOpeners == { <<BQ, BQ, BQ>>, <<BQ, BQ, BQ, "p", "y">>, <<BQ, BQ, BQ, " ">> }

\* what follows the enclosed lines: nothing (an unclosed fence), a closing
\* fence, a closing fence and a line, a closing fence with text and more
FenceClosers ==
    { <<>>, << <<BQ, BQ, BQ>> >>, << <<BQ, BQ, BQ>>, <<"#", " ", "a">> >>,
      << <<BQ, BQ, BQ, "x">>, <<"a">>, <<BQ, BQ, BQ>> >> }

\* the lines repeated by the long documents
Patterns ==
    { << <<"a">> >>, << <<"-", " ", "a">>, <<>> >>,
      << <<"#", " ", "a">>, <<"-", "-", "-">>, <<"3", ".", " ", "a">> >> }

Cycle(p, n) == [k \in 1..n |-> p[((k - 1) % Len(p)) + 1]]

\* links: a plain one, one after text, one before a parenthesis, one with
\* a "[" inside its brackets, one with a "(" inside its parentheses
LinkTexts ==
    { <<"[", "a", "]", "(", "u", ")">>,
      <<"[", "a", "]", "(", "u", ")", " ", "(", "b", ")">>,
      <<"x", " ", "[", "a", "]", "(", "u", ")", " ", "y">>,
      <<"[", "a", "[", "b", "]", "(", "u", ")">>,
      <<"[", "a", "]", "(", "(", "u", ")">> }

TextDocs == {<<t>> : t \in SeqsUpTo(InlineChars, MaxText) \cup LinkTexts}
LineDocs == SeqsUpTo(SampleLines, MaxLines)
FenceDocs ==
    {pre \o <<open>> \o body \o close :
        pre \in {<<>>, << <<"a">> >>}, open \in FenceOpeners,
        body \in SeqsUpTo(BodyLines, MaxBody), close \in FenceClosers}
LongDocs == {Cycle(p, n) : p \in Patterns, n \in (Cap - 1)..(Cap + Over)}

Docs == TextDocs \cup LineDocs \cup FenceDocs \cup LongDocs

\* the content strings handed to markdown_to_blocks
Contents == {Join(d, <<"\n">>) : d \in Docs}

(***************************************************************************)
(* markdown_to_blocks, one action for each branch of its loop, and         *)
(* _parse_rich_text, one action for each branch of its loop.  pc is the    *)
(* place of control: "line" at the head of the outer loop, "code" at the   *)
(* head of the fence loop, "fmt" at the head of the loop of                *)
(* _parse_rich_text, "done" after the return.  origin is a history         *)
(* variable: origin[k] is the index of the line that started block k.     *)
(***************************************************************************)
Init ==
    /\ \E content \in Contents : lines = Split(content, "\n")
    /\ i = 0
    /\ blocks = <<>>
    /\ origin = <<>>
    /\ pc = "line"
    /\ ret = <<>>
    /\ lang = <<>>
    /\ code_lines = <<>>
    /\ kind = "none"
    /\ text = <<>>
    /\ ri = 0
    /\ current = <<>>
    /\ result = <<>>
    /\ rt = Plain(<<>>)

fmtVars == <<kind, text, ri, current, result, rt>>
codeVars == <<lang, code_lines>>

AtLine(r) == pc = "line" /\ i < Len(lines) /\ Rule(lines[i + 1]) = r

\* the call self._parse_rich_text(t) for a block of type k
CallFmt(k, t) ==
    /\ kind' = k
    /\ text' = t
    /\ ri' = 0
    /\ current' = <<>>
    /\ result' = <<>>
    /\ pc' = "fmt"
    /\ UNCHANGED <<lines, i, blocks, origin, ret, lang, code_lines, rt>>

\* blocks.append(b); i += 1; continue
Emit(b) ==
    /\ blocks' = Append(blocks, b)
    /\ origin' = Append(origin, i)
    /\ i' = i + 1
    /\ UNCHANGED <<lines, pc, ret, codeVars, fmtVars>>

SkipBlank ==
    /\ AtLine("blank")
    /\ i' = i + 1
    /\ UNCHANGED <<lines, blocks, origin, pc, ret, codeVars, fmtVars>>

Heading1 == AtLine("heading_1") /\ CallFmt("heading_1", H1Text(lines[i + 1]))

Heading2 == AtLine("heading_2") /\ CallFmt("heading_2", H2Text(lines[i + 1]))

Heading3 == AtLine("heading_3") /\ CallFmt("heading_3", H3Text(lines[i + 1]))

Divider == AtLine("divider") /\ Emit(Block("divider", <<>>, <<>>))

Quote == AtLine("quote") /\ Emit(Block("quote", <<Plain(From(lines[i + 1], 2))>>, <<>>))

FenceOpen ==
    /\ AtLine("code")
    /\ lang' = FenceLang(lines[i + 1])
    /\ code_lines' = <<>>
    /\ origin' = Append(origin, i)
    /\ i' = i + 1
    /\ pc' = "code"
    /\ UNCHANGED <<lines, blocks, ret, fmtVars>>

\* a faulty variant of InFence: the stripped line is tested
InFenceStripped == i < Len(lines) /\ ~IsFence(Strip(lines[i + 1]))

\* while i < len(lines) and not lines[i].startswith of three backquotes
InFence == i < Len(lines) /\ ~IsFence(lines[i + 1])

CodeLine ==
    /\ pc = "code"
    /\ InFence
    /\ code_lines' = Append(code_lines, lines[i + 1])
    /\ i' = i + 1
    /\ UNCHANGED <<lines, blocks, origin, pc, ret, lang, fmtVars>>

CodeClose ==
    /\ pc = "code"
    /\ ~InFence
    /\ blocks' = Append(blocks, CodeBlock(lang, code_lines))
    /\ i' = i + 1
    /\ pc' = "line"
    /\ UNCHANGED <<lines, origin, ret, codeVars, fmtVars>>

Bullet ==
    AtLine("bulleted_list_item") /\ CallFmt("bulleted_list_item", BulletText(lines[i + 1]))

Numbered ==
    AtLine("numbered_list_item") /\ CallFmt("numbered_list_item", NumberedText(lines[i + 1]))

TableRow == AtLine("table") /\ CallFmt("paragraph", TableText(lines[i + 1]))

Paragraph == AtLine("paragraph") /\ CallFmt("paragraph", lines[i + 1])

\* the head of the loop of _parse_rich_text: while i < len(text)
AtFmt == pc = "fmt" /\ ri < Len(text)

segVars == <<lines, i, blocks, origin, pc, ret, lang, code_lines, kind, text, rt>>

FmtBold ==
    /\ AtFmt
    /\ AtBold(text, ri)
    /\ LET j == CloseIndex(text, <<"*", "*">>, ri + 2)
       IN  /\ result' = Append(Flush(result, current), Bold(Slice(text, ri + 2, j)))
           /\ ri' = j + 2
    /\ current' = <<>>
    /\ UNCHANGED segVars

FmtItalic ==
    /\ AtFmt
    /\ ~AtBold(text, ri)
    /\ AtItalic(text, ri)
    /\ LET j == CloseIndex(text, <<"*">>, ri + 1)
       IN  /\ result' = Append(Flush(result, current), Italic(Slice(text, ri + 1, j)))
           /\ ri' = j + 1
    /\ current' = <<>>
    /\ UNCHANGED segVars

FmtLink ==
    /\ AtFmt
    /\ ~AtBold(text, ri)
    /\ ~AtItalic(text, ri)
    /\ AtLink(text, ri)
    /\ LinkMatches(text, ri)
    /\ LET j == LinkJ(text, ri)
           k == LinkK(text, j)
       IN  /\ result' = Append(Flush(result, current),
                               LinkSpan(Slice(text, ri + 1, j), Slice(text, j + 2, k)))
           /\ ri' = k + 1
    /\ current' = <<>>
    /\ UNCHANGED segVars

\* a "[" that starts no whole pattern: current is flushed, then the
\* character falls through to current += text[i]
FmtBracket ==
    /\ AtFmt
    /\ ~AtBold(text, ri)
    /\ ~AtItalic(text, ri)
    /\ AtLink(text, ri)
    /\ ~LinkMatches(text, ri)
    /\ result' = Flush(result, current)
    /\ current' = <<text[ri + 1]>>
    /\ ri' = ri + 1
    /\ UNCHANGED segVars

FmtChar ==
    /\ AtFmt
    /\ ~AtBold(text, ri)
    /\ ~AtItalic(text, ri)
    /\ ~AtLink(text, ri)
    /\ current' = Append(current, text[ri + 1])
    /\ ri' = ri + 1
    /\ UNCHANGED <<result, segVars>>

\* the end of _parse_rich_text and of the rule that called it: the block
\* holds the returned span, i += 1, continue
FmtReturn ==
    /\ pc = "fmt"
    /\ ri >= Len(text)
    /\ result' = FinalFlush(result, current)
    /\ rt' = FmtValue(result')
    /\ blocks' = Append(blocks, Block(kind, <<rt'>>, <<>>))
    /\ origin' = Append(origin, i)
    /\ i' = i + 1
    /\ pc' = "line"
    /\ UNCHANGED <<lines, ret, codeVars, kind, text, ri, current>>

Return ==
    /\ pc = "line"
    /\ i >= Len(lines)
    /\ ret' = Truncate(blocks)
    /\ pc' = "done"
    /\ UNCHANGED <<lines, i, blocks, origin, codeVars, fmtVars>>

Next ==
    \/ SkipBlank
    \/ Heading1
    \/ Heading2
    \/ Heading3
    \/ Divider
    \/ Quote
    \/ FenceOpen
    \/ CodeLine
    \/ CodeClose
    \/ Bullet
    \/ Numbered
    \/ TableRow
    \/ Paragraph
    \/ FmtBold
    \/ FmtItalic
    \/ FmtLink
    \/ FmtBracket
    \/ FmtChar
    \/ FmtReturn
    \/ Return

Spec == Init /\ [][Next]_vars

(***************************************************************************)
(* The claims.                                                             *)
(***************************************************************************)
Last(s) == s[Len(s)]

\* the steps that come back to the head of the line loop or of the fence loop
LoopStep == pc' \in {"line", "code"}

\* the steps of the loop of _parse_rich_text
ScanStep == pc = "fmt" /\ pc' = "fmt"

\* the step that returns from _parse_rich_text and appends the block
ReturnStep == pc = "fmt" /\ pc' = "line"

\* the step that dispatches line i
DispatchStep == pc = "line" /\ i < Len(lines)

\* the length of the longest line of the document
Longest == Max({Len(lines[n]) : n \in 1..Len(lines)})

\* more than the steps one line can take: a text handed to the formatter is
\* at most three times as long as its line (a table row whose one-character
\* separators become three)
Weight == 3 * Longest + 5

\* a variant of the run: the lines left, weighted, plus the steps left on
\* the current line
Measure ==
    (Len(lines) + 2 - i) * Weight
        + (IF pc = "done" THEN 0
           ELSE IF pc = "fmt" THEN Len(text) + 3 - ri
           ELSE Weight - 1)

\* C1: for every input markdown_to_blocks terminates: every iteration of the
\* line loop and of the fence loop strictly advances the line cursor, every
\* iteration of the inline scan strictly advances the scan cursor and leaves
\* the line cursor alone, the cursors never pass len(lines) + 1 and
\* len(text) + 2, every step strictly decreases the natural number Measure
\* (so only finitely many steps precede the return), and the returned list
\* has at most 100 blocks.
C1_Terminates ==
    [][/\ LoopStep => i' > i
       /\ ScanStep => ri' > ri /\ i' = i
       /\ i' <= Len(lines) + 1
       /\ ri' <= Len(text') + 2
       /\ Measure' < Measure
       /\ Measure' >= 0
       /\ pc' = "done" => Len(ret') <= Cap /\ i' >= Len(lines)]_vars

\* C1 witness: a conversion has returned after an unclosed bold marker and an
\* unclosed code fence ran to the end of their input.
C1_Witness ==
    /\ pc = "done"
    /\ i = Len(lines) + 1
    /\ ri = Len(text) + 2
    /\ Len(ret) >= 1

\* the block type the rule of a line produces
TypeOfLine(line) == IF Rule(line) = "table" THEN "paragraph" ELSE Rule(line)

\* C2: the returned list is the first 100 blocks when more than 100 were
\* produced and every block otherwise, and the blocks are in source line
\* order: block k comes from line origin[k], has the type of that line, and
\* origin is strictly increasing.
C2_Truncation ==
    pc = "done" =>
        /\ Len(origin) = Len(blocks)
        /\ \A k \in 1..Len(blocks) : blocks[k].type = TypeOfLine(lines[origin[k] + 1])
        /\ \A k \in 1..(Len(origin) - 1) : origin[k] < origin[k + 1]
        /\ Len(blocks) > Cap => Len(ret) = Cap /\ \A k \in 1..Cap : ret[k] = blocks[k]
        /\ Len(blocks) <= Cap => ret = blocks

\* C2 witness: a document that produced more than 100 blocks has returned.
C2_Witness == pc = "done" /\ Len(blocks) > Cap /\ Len(ret) = Cap

\* the index of the first fence line after line o, or len(lines) if none
FenceEnd(o) ==
    LET closing == {n \in (o + 1)..(Len(lines) - 1) : IsFence(lines[n + 1])}
    IN  IF closing = {} THEN Len(lines) ELSE Min(closing)

\* C3: a line starting with three backquotes that is dispatched opens a
\* fence; closing it appends exactly one code block whose content is the
\* lines strictly between the opening line and the next line starting with
\* three backquotes (or the end of input), joined with newlines and otherwise
\* verbatim; the cursor is then strictly after the closing line; and no block
\* starts at an enclosed line or at the closing line.
C3_CodeFence ==
    [][/\ DispatchStep /\ IsFence(lines[i + 1]) =>
              pc' = "code" /\ origin' = Append(origin, i) /\ blocks' = blocks
       /\ pc = "code" /\ pc' = "line" =>
              LET o == Last(origin)
                  body == Slice(lines, o + 1, FenceEnd(o))
              IN  /\ Len(blocks') = Len(blocks) + 1
                  /\ Len(origin') = Len(blocks')
                  /\ Last(blocks').type = "code"
                  /\ Last(blocks').rich_text = <<Plain(Join(body, <<"\n">>))>>
                  /\ i' = FenceEnd(o) + 1
       /\ \A k \in 1..Len(blocks') : blocks'[k].type = "code" =>
              \A m \in 1..Len(origin') :
                  origin'[m] \notin (origin'[k] + 1)..FenceEnd(origin'[k])]_vars

\* C3 witness: a closed fence enclosing two lines, one of them a heading
\* line, was followed by a block of the line after the closing fence.
C3_Witness ==
    \E k \in 1..Len(blocks) :
        /\ blocks[k].type = "code"
        /\ k < Len(blocks)
        /\ Len(origin) = Len(blocks)
        /\ origin[k + 1] = FenceEnd(origin[k]) + 1
        /\ Contains(blocks[k].rich_text[1].content, <<"\n", "#", " ", "a">>)

\* a table row with a leading and a trailing pipe
IsPipeRow(line) == Len(line) >= 2 /\ line[1] = "|" /\ Last(line) = "|"

\* C4: a pipe-delimited row with leading and trailing pipes is handed to the
\* formatter, for a paragraph, as its cells, each trimmed, joined by " | ".
C4_TableRow ==
    [][DispatchStep /\ IsPipeRow(lines[i + 1]) =>
           pc' = "fmt" /\ kind' = "paragraph" /\ text' = TableText(lines[i + 1])]_vars

\* the number of leading characters of line that satisfy space
LeadingSpaces(line) ==
    LET other == {n \in 1..Len(line) : ~IsSpace(line[n])}
    IN  IF other = {} THEN Len(line) ELSE Min(other) - 1

Hashes(line) ==
    LET other == {n \in 1..Len(line) : line[n] # "#"}
    IN  IF other = {} THEN Len(line) ELSE Min(other) - 1

\* C6: a line starting with "# ", "## ", "### " is a heading of level 1, 2,
\* 3 whose text is the formatted rest of the line after the prefix; a line
\* starting with four or more "#" and a space becomes a paragraph.
C6_Headings ==
    [][/\ DispatchStep =>
              LET line == lines[i + 1]
                  h == Hashes(line)
              IN  /\ h \in 1..3 /\ Slice(line, h, h + 1) = <<" ">> =>
                         /\ pc' = "fmt"
                         /\ kind' = <<"heading_1", "heading_2", "heading_3">>[h]
                         /\ text' = From(line, h + 1)
                  /\ h >= 4 /\ Slice(line, h, h + 1) = <<" ">> =>
                         pc' = "fmt" /\ kind' = "paragraph"
       /\ ScanStep => kind' = kind /\ text' = text
       /\ ReturnStep => blocks' = Append(blocks, Block(kind, <<rt'>>, <<>>))]_vars

\* C6 witness: a level-2 heading whose text is the formatted rest of its
\* line, and a paragraph from a line of four "#" and a space.
C6_Witness ==
    /\ pc = "done"
    /\ \E k \in 1..Len(blocks) :
           /\ blocks[k].type = "heading_2"
           /\ lines[origin[k] + 1] = <<"#", "#", " ", "*", "a", "*">>
           /\ blocks[k].rich_text = <<Italic(<<"a">>)>>
    /\ \E k \in 1..Len(blocks) :
           /\ blocks[k].type = "paragraph"
           /\ StartsWith(lines[origin[k] + 1], <<"#", "#", "#", "#", " ">>)

\* C7: for a non-empty text the formatter returns exactly the first span of
\* its scan, and the block holds that span alone; "**a** b" gives the bold
\* span "a", and "a*a*" only the leading plain run "a".
C7_FirstSpan ==
    [][ReturnStep /\ text # <<>> =>
           /\ Len(result') >= 1
           /\ rt' = result'[1]
           /\ Last(blocks').rich_text = <<result'[1]>>
           /\ text = <<"*", "*", "a", "*", "*", " ", "b">> => rt' = Bold(<<"a">>)
           /\ text = <<"a", "*", "a", "*">> => rt' = Plain(<<"a">>)]_vars

\* C7 witness: a scan that produced two different spans has returned the
\* first and its block holds only that one.
C7_Witness ==
    /\ pc = "line"
    /\ Len(result) >= 2
    /\ result[2] # result[1]
    /\ rt = result[1]
    /\ blocks # <<>>
    /\ Last(blocks).rich_text = <<result[1]>>

\* C8: a "[" that begins no complete [text](url) pattern is appended to the
\* plain accumulator without flushing it.
C8_BracketLiteral ==
    [][/\ pc = "fmt"
       /\ ri < Len(text)
       /\ ~AtBold(text, ri)
       /\ ~AtItalic(text, ri)
       /\ AtLink(text, ri)
       /\ ~LinkMatches(text, ri)
       => current' = Append(current, "[") /\ result' = result]_vars

\* C9 as stated: the span list of a block is empty exactly when the text
\* handed to the formatter was empty.
C9_EmptyListIffEmptyText ==
    [][ReturnStep => (Last(blocks').rich_text = <<>> <=> text = <<>>)]_vars

\* C9 as amended: the span list of the scan is empty exactly when the text
\* is empty; the block always holds exactly one span, which for an empty
\* text is the plain span with empty content.
C9_OneSpanAlways ==
    [][ReturnStep =>
           /\ result' = <<>> <=> text = <<>>
           /\ Len(Last(blocks').rich_text) = 1
           /\ text = <<>> => Last(blocks').rich_text = <<Plain(<<>>)>>]_vars

\* C9 witness: the heading line "# " gave a heading whose one span is the
\* plain span with empty content.
C9_Witness ==
    \E k \in 1..Len(blocks) :
        /\ Len(origin) >= k
        /\ lines[origin[k] + 1] = <<"#", " ">>
        /\ blocks[k].type = "heading_1"
        /\ blocks[k].rich_text = <<Plain(<<>>)>>
        /\ result = <<>>

\* C10 as stated: no bold span holds "**", no italic span holds "*", no link
\* span holds "[" or "]" in its content or "(" or ")" in its URL.
C10_NoDelimiters ==
    \A n \in 1..Len(result) :
        LET sp == result[n]
        IN  /\ sp.bold => ~Contains(sp.content, <<"*", "*">>)
            /\ sp.italic => ~Contains(sp.content, <<"*">>)
            /\ sp.link => /\ ~Contains(sp.content, <<"[">>)
                          /\ ~Contains(sp.content, <<"]">>)
                          /\ ~Contains(sp.url, <<"(">>)
                          /\ ~Contains(sp.url, <<")">>)

\* C10 as amended: no bold span holds "**", no italic span holds "*", and a
\* link span holds no "]" in its content and no ")" in its URL, the closing
\* delimiters the scan searched for.
C10_NoClosingDelimiters ==
    \A n \in 1..Len(result) :
        LET sp == result[n]
        IN  /\ sp.bold => ~Contains(sp.content, <<"*", "*">>)
            /\ sp.italic => ~Contains(sp.content, <<"*">>)
            /\ sp.link => /\ ~Contains(sp.content, <<"]">>)
                          /\ ~Contains(sp.url, <<")">>)

\* C10 witness: the scan produced a link span whose content holds a "[" and
\* has returned.
C10_Witness ==
    /\ \E n \in 1..Len(result) : result[n].link /\ Contains(result[n].content, <<"[">>)
    /\ pc = "line"

====
